---- MODULE Spec2Model ----
(***************************************************************************)
(* Model of Daily_jobresearche.py: the response decoder (extract_json),    *)
(* the result normalizer (normalize_results), one analysis call            *)
(* (run_assistant_analysis) and the orchestration in main().               *)
(*                                                                         *)
(* Text is a sequence of atoms.  An atom is one character of the text that *)
(* matters to the code (a bracket, a brace, a quote, a backslash, a comma, *)
(* a colon, a blank) or an indivisible run of other characters (a word, a  *)
(* number, a code fence).  A JSON value is a record tagged by its type.    *)
(* Every character of a text can be encoded as UTF-8, so that the writes   *)
(* to the local log files and to the console succeed; of the escapes of    *)
(* JSON strings, those of the quote and of the backslash are modelled.     *)
(***************************************************************************)
EXTENDS Integers, Sequences, FiniteSets, TLC

(***************************************************************************)
(* JSON values (Python: str, int/float, None, list, dict).  A dict keeps   *)
(* its keys in insertion order, as Python does.                            *)
(***************************************************************************)
JStr(s) == [t |-> "str", s |-> s]
JNum(n) == [t |-> "num", n |-> n]
JNull == [t |-> "null"]
JList(items) == [t |-> "list", items |-> items]
JDict(kv) == [t |-> "dict", kv |-> kv]
KV(k, v) == [k |-> k, v |-> v]

IsStr(x) == x.t = "str"
IsList(x) == x.t = "list"
IsDict(x) == x.t = "dict"

HasKey(d, k) == \E n \in 1..Len(d.kv) : d.kv[n].k = k
DictGet(d, k) == d.kv[CHOOSE n \in 1..Len(d.kv) : d.kv[n].k = k].v
\* d[k] = v of a Python dict: an existing key keeps its place.
DictPut(kv, k, v) ==
    IF \E n \in 1..Len(kv) : kv[n].k = k
    THEN [n \in 1..Len(kv) |-> IF kv[n].k = k THEN KV(k, v) ELSE kv[n]]
    ELSE Append(kv, KV(k, v))

(***************************************************************************)
(* json.loads / json.dumps over atoms.                                     *)
(***************************************************************************)
Blank == " "
Quote == "\""
Backslash == "\\"
Fence == "FENCE"   \* the three-backquote code fence
NumberAtoms == {"0", "1", "2", "5", "7", "42"}
Fail == [ok |-> FALSE]

RECURSIVE SkipWs(_, _)
SkipWs(ts, i) == IF i <= Len(ts) /\ ts[i] = Blank THEN SkipWs(ts, i + 1) ELSE i

\* the body of a string literal, from the atom after its opening quote
RECURSIVE ParseString(_, _, _)
ParseString(ts, i, acc) ==
    IF i > Len(ts) THEN Fail
    ELSE IF ts[i] = Quote THEN [ok |-> TRUE, v |-> JStr(acc), i |-> i + 1]
    ELSE IF ts[i] = Backslash
         THEN IF i + 1 <= Len(ts) /\ ts[i + 1] \in {Quote, Backslash}
              THEN ParseString(ts, i + 2, Append(acc, ts[i + 1]))
              ELSE Fail
    ELSE ParseString(ts, i + 1, Append(acc, ts[i]))

RECURSIVE ParseValue(_, _)
RECURSIVE ParseElems(_, _, _)
RECURSIVE ParseMembers(_, _, _)

ParseValue(ts, i) ==
    LET j == SkipWs(ts, i) IN
    IF j > Len(ts) THEN Fail
    ELSE IF ts[j] = Quote THEN ParseString(ts, j + 1, <<>>)
    ELSE IF ts[j] \in NumberAtoms THEN [ok |-> TRUE, v |-> JNum(ts[j]), i |-> j + 1]
    ELSE IF ts[j] = "null" THEN [ok |-> TRUE, v |-> JNull, i |-> j + 1]
    ELSE IF ts[j] = "["
         THEN LET k == SkipWs(ts, j + 1) IN
              IF k <= Len(ts) /\ ts[k] = "]"
              THEN [ok |-> TRUE, v |-> JList(<<>>), i |-> k + 1]
              ELSE ParseElems(ts, j + 1, <<>>)
    ELSE IF ts[j] = "{"
         THEN LET k == SkipWs(ts, j + 1) IN
              IF k <= Len(ts) /\ ts[k] = "}"
              THEN [ok |-> TRUE, v |-> JDict(<<>>), i |-> k + 1]
              ELSE ParseMembers(ts, j + 1, <<>>)
    ELSE Fail

\* one element, then "," and more elements, or "]"
ParseElems(ts, i, acc) ==
    LET r == ParseValue(ts, i) IN
    IF ~r.ok THEN Fail
    ELSE LET k == SkipWs(ts, r.i) IN
         IF k > Len(ts) THEN Fail
         ELSE IF ts[k] = "," THEN ParseElems(ts, k + 1, Append(acc, r.v))
         ELSE IF ts[k] = "]" THEN [ok |-> TRUE, v |-> JList(Append(acc, r.v)), i |-> k + 1]
         ELSE Fail

\* one "key": value member, then "," and more members, or "}"
ParseMembers(ts, i, acc) ==
    LET j == SkipWs(ts, i) IN
    IF j > Len(ts) \/ ts[j] # Quote THEN Fail
    ELSE LET key == ParseString(ts, j + 1, <<>>) IN
         IF ~key.ok THEN Fail
         ELSE LET c == SkipWs(ts, key.i) IN
              IF c > Len(ts) \/ ts[c] # ":" THEN Fail
              ELSE LET r == ParseValue(ts, c + 1) IN
                   IF ~r.ok THEN Fail
                   ELSE LET k == SkipWs(ts, r.i)
                            kv == DictPut(acc, key.v.s, r.v)
                        IN  IF k > Len(ts) THEN Fail
                            ELSE IF ts[k] = "," THEN ParseMembers(ts, k + 1, kv)
                            ELSE IF ts[k] = "}" THEN [ok |-> TRUE, v |-> JDict(kv), i |-> k + 1]
                            ELSE Fail

\* json.loads(ts): one value, blanks around it, nothing else
JsonLoads(ts) ==
    LET r == ParseValue(ts, 1) IN
    IF r.ok /\ SkipWs(ts, r.i) > Len(ts) THEN [ok |-> TRUE, v |-> r.v] ELSE Fail

RECURSIVE Escape(_)
Escape(s) ==
    IF s = <<>> THEN <<>>
    ELSE (IF Head(s) \in {Quote, Backslash} THEN <<Backslash, Head(s)>> ELSE <<Head(s)>>)
         \o Escape(Tail(s))

\* json.dumps(x, ensure_ascii=False)
RECURSIVE JsonDumps(_)
RECURSIVE DumpElems(_)
RECURSIVE DumpMembers(_)
JsonDumps(x) ==
    IF x.t = "str" THEN <<Quote>> \o Escape(x.s) \o <<Quote>>
    ELSE IF x.t = "num" THEN <<x.n>>
    ELSE IF x.t = "null" THEN <<"null">>
    ELSE IF x.t = "list" THEN <<"[">> \o DumpElems(x.items) \o <<"]">>
    ELSE <<"{">> \o DumpMembers(x.kv) \o <<"}">>
DumpElems(items) ==
    IF items = <<>> THEN <<>>
    ELSE JsonDumps(Head(items))
         \o (IF Len(items) > 1 THEN <<",", Blank>> ELSE <<>>) \o DumpElems(Tail(items))
DumpMembers(kv) ==
    IF kv = <<>> THEN <<>>
    ELSE <<Quote>> \o Escape(Head(kv).k) \o <<Quote, ":", Blank>> \o JsonDumps(Head(kv).v)
         \o (IF Len(kv) > 1 THEN <<",", Blank>> ELSE <<>>) \o DumpMembers(Tail(kv))


(***************************************************************************)
(* extract_json(text): the JSON value embedded in an assistant's output.   *)
(***************************************************************************)
RECURSIVE LStrip(_)
LStrip(ts) == IF ts # <<>> /\ Head(ts) = Blank THEN LStrip(Tail(ts)) ELSE ts
RECURSIVE RStrip(_)
RStrip(ts) ==
    IF ts # <<>> /\ ts[Len(ts)] = Blank THEN RStrip(SubSeq(ts, 1, Len(ts) - 1)) ELSE ts
Strip(ts) == RStrip(LStrip(ts))

\* re.sub(r"^```(?:json)?\s*", "", text)
StripFenceHead(ts) ==
    IF ts # <<>> /\ Head(ts) = Fence
    THEN LET r == Tail(ts) IN
         LStrip(IF r # <<>> /\ Head(r) = "json" THEN Tail(r) ELSE r)
    ELSE ts

\* re.sub(r"\s*```$", "", text)
StripFenceTail(ts) ==
    IF ts # <<>> /\ ts[Len(ts)] = Fence THEN RStrip(SubSeq(ts, 1, Len(ts) - 1)) ELSE ts

PreviewLen == 300

\* variant of Preview: the text is not cut
PreviewAll(ts, n) == ts
\* text[:n]
Preview(ts, n) == SubSeq(ts, 1, IF Len(ts) < n THEN Len(ts) ELSE n)

\* re.search(r"(\[[\s\S]*\]|\{[\s\S]*\})", text): the leftmost opener that has
\* its closer somewhere after it, up to the last such closer
Closer(open) == IF open = "[" THEN "]" ELSE "}"
Opens(ts) ==
    {i \in 1..Len(ts) : /\ ts[i] \in {"[", "{"}
                        /\ \E j \in (i + 1)..Len(ts) : ts[j] = Closer(ts[i])}
Min(S) == CHOOSE x \in S : \A y \in S : x <= y
Max(S) == CHOOSE x \in S : \A y \in S : x >= y
BracketMatch(ts) ==
    LET i == Min(Opens(ts))
        j == Max({k \in (i + 1)..Len(ts) : ts[k] = Closer(ts[i])})
    IN  SubSeq(ts, i, j)

Raise(type, msg) == [ok |-> FALSE, type |-> type, msg |-> msg]
Return(v) == [ok |-> TRUE, v |-> v]

extract_json(text) ==
    IF text = <<>> THEN Raise("ValueError", <<"Empty assistant output">>)
    ELSE LET stripped == StripFenceTail(StripFenceHead(Strip(text))) IN
         IF Opens(stripped) = {}
         THEN Raise("ValueError",
                    <<"Assistant output is not JSON. preview=">> \o Preview(stripped, PreviewLen))
         ELSE LET r == JsonLoads(BracketMatch(stripped)) IN
              IF r.ok THEN Return(r.v)
              ELSE Raise("JSONDecodeError", <<"Expecting value">>)

(***************************************************************************)
(* normalize_results(parsed) and its inner find_list_of_dict.              *)
(***************************************************************************)
\* variant of PreferredKeys: no key is tried before the others
NoPreferredKeys == <<>>
PreferredKeys == <<"results", "data", "items", "output", "content", "analysis", "jobs">>
MaxDepth == 6
NotFound == [found |-> FALSE]

AllDicts(items) == \A n \in 1..Len(items) : IsDict(items[n])

RECURSIVE find_list_of_dict(_, _, _)
RECURSIVE FirstFound(_, _, _)
\* the first value of vals, in order, under which a list is found
FirstFound(vals, depth, max_depth) ==
    IF vals = <<>> THEN NotFound
    ELSE LET got == find_list_of_dict(Head(vals), depth, max_depth) IN
         IF got.found THEN got ELSE FirstFound(Tail(vals), depth, max_depth)

find_list_of_dict(obj, depth, max_depth) ==
    IF depth > max_depth THEN NotFound
    ELSE IF IsList(obj) /\ obj.items # <<>> /\ AllDicts(obj.items)
         THEN [found |-> TRUE, v |-> obj.items]
    ELSE IF IsList(obj) /\ obj.items = <<>> THEN [found |-> TRUE, v |-> <<>>]
    ELSE IF IsDict(obj)
         THEN LET present == SelectSeq(PreferredKeys, LAMBDA k : HasKey(obj, <<k>>))
                  preferred == FirstFound([n \in 1..Len(present) |-> DictGet(obj, <<present[n]>>)],
                                          depth + 1, max_depth)
              IN  IF preferred.found THEN preferred
                  ELSE FirstFound([n \in 1..Len(obj.kv) |-> obj.kv[n].v], depth + 1, max_depth)
    ELSE NotFound

\* step 2 of normalize_results: json.loads of every element of a list[str]
RECURSIVE LoadEach(_, _, _)
LoadEach(items, n, acc) ==
    IF n > Len(items) THEN Return(acc)
    ELSE IF ~IsStr(items[n]) THEN Raise("ValueError", <<"Mixed list types at index">>)
    ELSE LET r == JsonLoads(items[n].s) IN
         IF r.ok THEN LoadEach(items, n + 1, Append(acc, r.v))
         ELSE Raise("ValueError", <<"List item is not JSON string">>)

\* steps 3 and 4, on the value steps 1 and 2 left in parsed
NormalizeShape(p) ==
    IF IsList(p) /\ (p.items = <<>> \/ IsDict(p.items[1])) THEN Return(p.items)
    ELSE IF IsDict(p)
         THEN LET found == find_list_of_dict(p, 0, MaxDepth) IN
              IF found.found THEN Return(found.v)
              ELSE IF HasKey(p, <<"job_url">>) THEN Return(<<p>>)
              ELSE Raise("ValueError", <<"Dict parsed but cannot find list[dict]">>)
    ELSE Raise("ValueError", <<"Expected list[dict]">>)

\* variant of NormalizeList: step 2 is left out
NormalizeListSkip(p) == NormalizeShape(p)

\* step 2, then steps 3 and 4
NormalizeList(p) ==
    IF IsList(p) /\ (p.items = <<>> \/ IsStr(p.items[1]))
    THEN LET each == LoadEach(p.items, 1, <<>>) IN
         IF each.ok THEN NormalizeShape(JList(each.v)) ELSE each
    ELSE NormalizeShape(p)

normalize_results(p) ==
    IF IsStr(p)
    THEN LET r == JsonLoads(p.s) IN
         IF r.ok THEN NormalizeList(r.v)
         ELSE Raise("ValueError", <<"Parsed is a string but not JSON">>)
    ELSE NormalizeList(p)


(***************************************************************************)
(* One attempt of run_assistant_analysis: what the body of the retry loop  *)
(* does with the terminal status of the run.                               *)
(***************************************************************************)
NoError == [present |-> FALSE]
LastError(code, message) == [present |-> TRUE, code |-> code, message |-> message]

DefaultWait == 15
WaitMargin == 2
BackoffBase == 5
BackoffStep == 2

DelayValue(a) == CASE a = "0" -> 0 [] a = "1" -> 1 [] a = "2" -> 2
                   [] a = "5" -> 5 [] a = "7" -> 7 [] a = "42" -> 42

\* variant of WaitTime: the delay the service suggests is ignored
WaitTimeDefault(message) == DefaultWait

\* re.search(r"try again in ([\d.]+)s", error_msg), or 15
WaitTime(message) ==
    LET hits == {n \in 1..(Len(message) - 2) :
                    /\ message[n] = "try again in "
                    /\ message[n + 1] \in NumberAtoms
                    /\ message[n + 2] = "s"}
    IN  IF hits = {} THEN DefaultWait ELSE DelayValue(message[Min(hits) + 1])

\* str.lower() of an atom
LowerAtom(a) ==
    CASE a = "Rate_Limit" -> "rate_limit"
      [] a = "RATE_LIMIT_EXCEEDED" -> "rate_limit_exceeded"
      [] a = "No assistant text message found" -> "no assistant text message found"
      [] OTHER -> a
Lower(ts) == [n \in 1..Len(ts) |-> LowerAtom(ts[n])]
\* "rate_limit" in error_str or "no assistant text message found" in error_str
Retryable(error_str) ==
    \E n \in 1..Len(error_str) :
        error_str[n] \in {"rate_limit", "rate_limit_exceeded", "no assistant text message found"}

\* str(run.last_error)
ErrorRepr(e) ==
    IF e.present THEN <<"LastError(code=", e.code, ", message=">> \o e.message \o <<")">>
    ELSE <<"None">>

Break == [kind |-> "break"]
Continue(d) == [kind |-> "continue", sleep |-> d]
Throw(type, msg) == [kind |-> "raise", err |-> Raise(type, msg)]

\* the try block: lines 668-697
TryBody(status, e, att, retries) ==
    IF status = "failed" /\ e.present
    THEN IF e.code = "rate_limit_exceeded"
         THEN IF att < retries - 1
              THEN Continue(WaitTime(e.message) + WaitMargin)
              ELSE Throw("RuntimeError", <<"max retries reached, rate limit error: ">> \o e.message)
         ELSE Throw("RuntimeError",
                    <<"Run failed: status=", status, ", error=", e.code, ": ">> \o e.message)
    ELSE IF status # "completed"
         THEN Throw("RuntimeError",
                    <<"Run not completed: status=", status, ", last_error=">> \o ErrorRepr(e))
    ELSE Break

\* variant of Handler: every RuntimeError is retried while attempts remain
HandlerRetryAll(thrown, att, retries) ==
    IF att < retries - 1 THEN Continue(BackoffBase + att * BackoffStep) ELSE thrown

\* except RuntimeError: lines 699-715
Handler(thrown, att, retries) ==
    IF Retryable(Lower(thrown.err.msg)) /\ att < retries - 1
    THEN Continue(BackoffBase + att * BackoffStep)
    ELSE thrown

AttemptOutcome(status, e, att, retries) ==
    LET body == TryBody(status, e, att, retries) IN
    IF body.kind = "raise" THEN Handler(body, att, retries) ELSE body

(***************************************************************************)
(* After the loop: the newest assistant text of the conversation, decoded  *)
(* and normalized (lines 717-758).  msgs is newest first, as the service   *)
(* lists it.                                                               *)
(***************************************************************************)
Message(role, content) == [role |-> role, content |-> content]
TextBlock(ts) == [type |-> "text", value |-> ts]
OtherBlock == [type |-> "image_file", value |-> <<>>]

\* variant of Reverse: the list is scanned as the service returned it
ReverseNot(seq) == seq
\* reversed(msgs.data), line 721
Reverse(seq) == [n \in 1..Len(seq) |-> seq[Len(seq) + 1 - n]]

\* the inner loop over m.content: text grows, assistant_text follows it
RECURSIVE ScanBlocks(_, _, _)
ScanBlocks(blocks, text, assistant_text) ==
    IF blocks = <<>> THEN assistant_text
    ELSE LET t == IF Head(blocks).type = "text" THEN text \o Head(blocks).value ELSE text IN
         ScanBlocks(Tail(blocks), t, IF Strip(t) # <<>> THEN t ELSE assistant_text)

\* the outer loop, oldest message first
RECURSIVE ScanMessages(_, _)
ScanMessages(ms, assistant_text) ==
    IF ms = <<>> THEN assistant_text
    ELSE ScanMessages(Tail(ms),
                      IF Head(ms).role # "assistant" THEN assistant_text
                      ELSE ScanBlocks(Head(ms).content, <<>>, assistant_text))

AssistantText(msgs) == ScanMessages(Reverse(msgs), <<>>)

\* run_assistant_in_thread, lines 596-603: the inner loop over m.content,
\* which stops at the first block that leaves text non-blank
RECURSIVE FirstText(_, _)
FirstText(blocks, text) ==
    IF blocks = <<>> THEN <<>>
    ELSE LET t == IF Head(blocks).type = "text" THEN text \o Head(blocks).value ELSE text IN
         IF Strip(t) # <<>> THEN t ELSE FirstText(Tail(blocks), t)

\* run_assistant_in_thread, lines 591-605: the outer loop, oldest message
\* first, which stops at the first assistant message that gave a text
RECURSIVE FirstAssistantText(_)
FirstAssistantText(ms) ==
    IF ms = <<>> THEN <<>>
    ELSE IF Head(ms).role # "assistant" THEN FirstAssistantText(Tail(ms))
    ELSE LET assistant_text == FirstText(Head(ms).content, <<>>) IN
         IF assistant_text # <<>> THEN assistant_text ELSE FirstAssistantText(Tail(ms))

InThreadText(msgs) == FirstAssistantText(Reverse(msgs))

\* lines 717-758: (results, assistant_text) or the error raised
ReadResult(msgs) ==
    LET assistant_text == AssistantText(msgs) IN
    IF assistant_text = <<>>
    THEN Raise("RuntimeError", <<"No assistant text message found">>)
    ELSE LET decoded == extract_json(assistant_text) IN
         IF ~decoded.ok THEN decoded
         ELSE LET results == normalize_results(decoded.v) IN
              IF results.ok THEN [ok |-> TRUE, v |-> results.v, raw |-> assistant_text]
              ELSE results


(***************************************************************************)
(* Reconciliation (main, lines 1543-1557) over Python's dict.get.          *)
(***************************************************************************)
None == JNull
Get(d, k, default) == IF HasKey(d, k) THEN DictGet(d, k) ELSE default
\* bool(x)
Truthy(x) ==
    CASE x.t = "str" -> x.s # <<>>
      [] x.t = "num" -> x.n # "0"
      [] x.t = "null" -> FALSE
      [] x.t = "list" -> x.items # <<>>
      [] x.t = "dict" -> x.kv # <<>>
\* hash(x) is defined
Hashable(x) == x.t \in {"str", "num", "null"}

\* jobs_by_url.get(url, {}): the last job of the payload with this URL
JobByUrl(payload, url) ==
    LET hits == {n \in 1..Len(payload) :
                    LET u == Get(payload[n], <<"job_url">>, None) IN Truthy(u) /\ u = url}
    IN  IF hits = {} THEN JDict(<<>>) ELSE payload[Max(hits)]

\* list(jobs_by_url.keys()): the URLs in the order they first appear
JobsUrls(payload) ==
    LET url(n) == Get(payload[n], <<"job_url">>, None)
        first == {n \in 1..Len(payload) :
                     Truthy(url(n)) /\ \A m \in 1..(n - 1) : url(m) # url(n)}
        keep == SelectSeq([n \in 1..Len(payload) |-> n], LAMBDA n : n \in first)
    IN  [n \in 1..Len(keep) |-> url(keep[n])]

\* line 1550
Missing(payload, res) ==
    LET res_urls == {Get(res[n], <<"job_url">>, None) : n \in {m \in 1..Len(res) : IsDict(res[m])}}
    IN  SelectSeq(JobsUrls(payload), LAMBDA u : u \notin res_urls)

\* variant of Merge: a value the record carries is kept
MergeKeep(payload, item) ==
    LET j == JobByUrl(payload, Get(item, <<"job_url">>, None))
        keep(kv, key) == IF \E n \in 1..Len(kv) : kv[n].k = key THEN kv
                         ELSE DictPut(kv, key, Get(j, key, None))
    IN  JDict(keep(keep(item.kv, <<"date_posted">>), <<"site">>))

\* lines 1554-1557 for one item
Merge(payload, item) ==
    LET j == JobByUrl(payload, Get(item, <<"job_url">>, None)) IN
    JDict(DictPut(DictPut(item.kv, <<"date_posted">>, Get(j, <<"date_posted">>, None)),
                  <<"site">>, Get(j, <<"site">>, None)))

\* lines 1543-1557: the reconciled records and the missing URLs, or the
\* TypeError / AttributeError of an item that is no dict or has an
\* unhashable job_url
Reconcile(payload, res) ==
    IF /\ JobsUrls(payload) # <<>>
       /\ \E n \in 1..Len(res) : IsDict(res[n]) /\ ~Hashable(Get(res[n], <<"job_url">>, None))
    THEN Raise("TypeError", <<"unhashable type">>)
    ELSE IF \E n \in 1..Len(res) : ~IsDict(res[n])
    THEN Raise("AttributeError", <<"object has no attribute 'get'">>)
    ELSE IF \E n \in 1..Len(res) : ~Hashable(Get(res[n], <<"job_url">>, None))
    THEN Raise("TypeError", <<"unhashable type">>)
    ELSE [ok |-> TRUE, v |-> [n \in 1..Len(res) |-> Merge(payload, res[n])],
          missing |-> Missing(payload, res)]

(***************************************************************************)
(* create_notion_page (lines 1217-1297) against the sink's pages.          *)
(***************************************************************************)
Or(x, y) == IF Truthy(x) THEN x ELSE y
Page(item) ==
    [job_url |-> Or(Get(item, <<"job_url">>, None), JStr(<<>>)),
     job_title |-> Or(Get(item, <<"job_title">>, None),
                      Or(Get(item, <<"title">>, None), JStr(<<"unknown job">>))),
     company |-> Or(Get(item, <<"company">>, None),
                    Or(Get(item, <<"company_name">>, None), JStr(<<>>))),
     location |-> Or(Get(item, <<"location">>, None), JStr(<<>>))]

\* notion_page_exists_by_job_url: a query is made unless job_url is empty
QueriesUrl(page) == Truthy(page.job_url)
ExistsByUrl(sink, page) == \E q \in sink : q.job_url = page.job_url
\* notion_page_exists_by_title_company_location: a query is made unless the
\* title or the company is empty
\* (x or "").strip(), lines 1201-1203
Stripped(x) == IF IsStr(x) THEN JStr(Strip(x.s)) ELSE x
QueriesTitle(page) == Truthy(Stripped(page.job_title)) /\ Truthy(Stripped(page.company))
ExistsByTitle(sink, page) ==
    \E q \in sink : /\ q.job_title = Stripped(page.job_title)
                    /\ q.company = Stripped(page.company)
                    /\ q.location = Stripped(page.location)
\* variant of Duplicate: the URL alone decides
DuplicateUrlOnly(sink, page) == QueriesUrl(page) /\ ExistsByUrl(sink, page)
\* lines 1230-1237
Duplicate(sink, page) ==
    \/ QueriesUrl(page) /\ ExistsByUrl(sink, page)
    \/ QueriesTitle(page) /\ ExistsByTitle(sink, page)

\* generate_fallback_report (lines 761-775) raises TypeError on a verdict
\* that cannot be a dict key
FallbackWorks(res) ==
    \A n \in 1..Len(res) : Hashable(Get(res[n], <<"verdict">>, JStr(<<"apply-cautiously">>)))

(***************************************************************************)
(* Bounds of the model and the inputs drawn within them.                   *)
(***************************************************************************)
MaxJobs == 3        \* scraped records: 0..MaxJobs
MaxBatchSize == 3   \* AI_CONFIG["batch_size"]: 0..MaxBatchSize
MaxRetries == 3     \* AI_CONFIG["max_retries"]: 0..MaxRetries
MaxPolls == 1       \* polls of one run that find it still in progress

Urls == <<"u1", "u2", "u3", "u4", "u5", "u6">>

\* one row of jobs_df_to_payload: the fields main() reads back
Job(n) ==
    JDict(<<KV(<<"job_url">>, JStr(<<Urls[n]>>)),
            KV(<<"site">>, JStr(<<"indeed">>)),
            KV(<<"date_posted">>, JStr(<<"2025-01-01">>))>>)

\* an analysis record of the prompt's schema for a job, with the given gaps
Analysis(job, gaps) ==
    JDict(<<KV(<<"job_url">>, DictGet(job, <<"job_url">>)),
            KV(<<"score">>, JNum("42")),
            KV(<<"verdict">>, JStr(<<"apply">>)),
            KV(<<"match_reasons">>, JList(<<JStr(<<"fit">>)>>)),
            KV(<<"gaps">>, JList(gaps)),
            KV(<<"keywords">>, JList(<<JStr(<<"kw">>)>>))>>)
SomeGaps == <<JStr(<<"gap">>)>>

\* texts the assistant may answer a batch with: the array asked for, in a
\* fenced block after some prose; one bare object; one bare object with no
\* gaps; an array with a stray number; no JSON at all; an array of numbers
Reply(kind, batch) ==
    CASE kind = "array" ->
             <<"Here", Blank, Fence, "json", Blank>>
                 \o JsonDumps(JList([n \in 1..Len(batch) |-> Analysis(batch[n], SomeGaps)]))
                 \o <<Blank, Fence>>
      [] kind = "object" -> JsonDumps(Analysis(batch[1], SomeGaps))
      [] kind = "no_gaps" -> JsonDumps(Analysis(batch[1], <<>>))
      [] kind = "mixed" -> JsonDumps(JList(<<Analysis(batch[1], SomeGaps), JNum("5")>>))
      [] kind = "prose" -> <<"Sorry", Blank, "no", Blank, "result">>
      [] kind = "numbers" -> <<"[", "5", "]">>
FewAnswers == {"array", "no_gaps", "mixed", "prose", "numbers"}
AllAnswers == FewAnswers \cup {"object"}

\* build_user_prompt(batch): instructions, then json.dumps of the batch
build_user_prompt(batch) == <<"analyse", Blank>> \o JsonDumps(JList(batch))

\* what messages.list may return for the conversation of a completed run
Conversations(kinds, batch) ==
    LET user == Message("user", <<TextBlock(build_user_prompt(batch))>>) IN
    { <<Message("assistant", <<TextBlock(Reply(kd, batch))>>), user>> : kd \in kinds }
    \cup { <<user>>, <<Message("assistant", <<OtherBlock, TextBlock(<<Blank>>)>>), user>> }

\* how a run that does not complete may end: its status and run.last_error
Ending(status, e) == [status |-> status, last_error |-> e]
FewEndings ==
    { Ending("failed", LastError("rate_limit_exceeded", <<"slow down">>)),
      Ending("failed", LastError("server_error", <<"boom">>)),
      Ending("expired", NoError) }
AllEndings ==
    FewEndings
    \cup { Ending("failed", LastError("rate_limit_exceeded", <<"wait", "try again in ", "7", "s">>)),
           Ending("failed", LastError("rate_limit_exceeded", <<"Rate_Limit", "hit">>)),
           Ending("failed", LastError("server_error", <<"upstream", "Rate_Limit">>)),
           Ending("failed", LastError("RATE_LIMIT_EXCEEDED", <<"boom">>)),
           Ending("failed", LastError("server_error", <<"No assistant text message found">>)),
           Ending("failed", NoError),
           Ending("cancelled", NoError),
           Ending("cancelled", LastError("server_error", <<"boom">>)),
           Ending("expired", LastError("server_error", <<"upstream", "Rate_Limit">>)) }

\* the sink's pages when persistence begins
InitialSinks == { {}, {Page(Analysis(Job(1), SomeGaps))} }

(***************************************************************************)
(* State.                                                                  *)
(***************************************************************************)
VARIABLES
    jobs_payload,     \* main: the scraped records
    batch_size,       \* AI_CONFIG["batch_size"]
    max_retries,      \* AI_CONFIG["max_retries"]
    endings,          \* the reasoning service: how its runs may fail
    answers,          \* the reasoning service: the kinds of text it may answer
    pc,               \* main: where the run is
    stage,            \* the step whose exception ended main(), or "none"
    i,                \* main: offset of the current batch in jobs_payload
    results,          \* main: analysis records accumulated
    failed_batches,   \* main: the failure list
    calls,            \* the batches handed to run_assistant_analysis, in order
    outcomes,         \* what each of those calls returned or raised
    attempt,          \* run_assistant_analysis: the loop variable
    threads,          \* conversations opened by the latest call, while
                      \* main() is in the analysis phase
    slept,            \* time.sleep durations of the latest call, likewise
    polls,            \* polls of the current run that found no terminal status
    in_flight,        \* the service: runs started that have reached no
                      \* terminal status
    missing,          \* main: input URLs with no analysis record
    k,                \* main: index of the next record to persist
    notion,           \* the sink's pages
    creates,          \* create requests the sink received in this run
    created,          \* the sink: pages it has created in this run
    notion_success,   \* main: the counter of lines 1563-1575
    report,           \* main: where report_text came from
    mail,             \* what became of the mail step
    parsed,           \* normalize_results: its argument
    normalized,       \* normalize_results: what it returned or raised
    msgs_data,        \* run_assistant_analysis: msgs.data of line 717
    scanned,          \* run_assistant_analysis: assistant_text after line 732,
                      \* or the error of line 749
    assistant_output, \* extract_json: its argument
    extracted,        \* extract_json: what it returned or raised
    racers            \* concurrent runs in create_notion_page: where each is

vars == <<jobs_payload, batch_size, max_retries, endings, answers, pc, stage, i, results,
          failed_batches, calls, outcomes, attempt, threads, slept, polls, in_flight,
          missing, k, notion, creates, created, notion_success, report, mail,
          parsed, normalized, msgs_data, scanned, assistant_output, extracted, racers>>

callVars == <<attempt, threads, slept, polls, in_flight>>
configVars == <<jobs_payload, batch_size, max_retries, endings, answers>>
sinkVars == <<missing, k, notion, creates, created, notion_success>>
tailVars == <<report, mail>>
normVars == <<parsed, normalized, msgs_data, scanned, assistant_output, extracted, racers>>

\* a function that has not been called on its own
Idle == [idle |-> TRUE]

\* line 1359: batched mode or the whole input at once
BatchedMode(n, size) == size > 0 /\ n > size
\* line 1375
TotalBatches(n, size) == (n + size - 1) \div size
\* variant of BatchAt: a slice that begins one record early
BatchAtOverlap(payload, off, size) ==
    SubSeq(payload, IF off > 0 THEN off ELSE 1,
           IF off + size < Len(payload) THEN off + size ELSE Len(payload))
\* line 1379: jobs_payload[i:i+batch_size]
BatchAt(payload, off, size) ==
    SubSeq(payload, off + 1, IF off + size < Len(payload) THEN off + size ELSE Len(payload))
\* line 1380
BatchNum(off, size) == off \div size + 1

Batched == BatchedMode(Len(jobs_payload), batch_size)
CurrentBatch == IF Batched THEN BatchAt(jobs_payload, i, batch_size) ELSE jobs_payload
CurrentNum == IF Batched THEN BatchNum(i, batch_size) ELSE 1

\* the locals of main() and of run_assistant_analysis that the analysis
\* phase does not touch, as they are before it
InitLocals ==
    /\ stage = "none"
    /\ i = 0
    /\ failed_batches = <<>>
    /\ attempt = 0
    /\ threads = <<>>
    /\ slept = <<>>
    /\ polls = 0
    /\ in_flight = 0
    /\ missing = <<>>
    /\ k = 1
    /\ creates = 0
    /\ created = 0
    /\ notion_success = 0
    /\ report = "none"
    /\ mail = "none"

InitRun ==
    /\ pc = "fetch"
    /\ results = <<>>
    /\ calls = <<>>
    /\ outcomes = <<>>
    /\ notion = {}
    /\ InitLocals

\* a whole run, against a service whose runs fail in the common ways
Init ==
    /\ \E n \in 0..MaxJobs : jobs_payload = [m \in 1..n |-> Job(m)]
    /\ batch_size \in -1..MaxBatchSize
    /\ max_retries \in {-1, 0, MaxRetries}
    /\ endings = FewEndings
    /\ answers = FewAnswers
    /\ InitRun
    /\ parsed = Idle
    /\ normalized = Idle
    /\ msgs_data = Idle
    /\ scanned = Idle
    /\ assistant_output = Idle
    /\ extracted = Idle
    /\ racers = <<>>

\* a run over one record, so with one analysis call, against a service
\* whose runs fail in every way
InitCall ==
    /\ jobs_payload = <<Job(1)>>
    /\ batch_size \in -1..MaxBatchSize
    /\ max_retries \in (-1)..MaxRetries
    /\ endings = AllEndings
    /\ answers = AllAnswers
    /\ InitRun
    /\ parsed = Idle
    /\ normalized = Idle
    /\ msgs_data = Idle
    /\ scanned = Idle
    /\ assistant_output = Idle
    /\ extracted = Idle
    /\ racers = <<>>

(***************************************************************************)
(* main(), up to the analysis phase.                                       *)
(***************************************************************************)
\* variant of FetchJobs: an empty scrape does not end the run
FetchJobsOn ==
    /\ pc = "fetch"
    /\ pc' = "link"
    /\ UNCHANGED <<stage, i, results, failed_batches, calls, outcomes>>
    /\ UNCHANGED <<callVars, configVars, sinkVars, tailVars, normVars>>

\* lines 1326-1337: nothing scraped ends the run
FetchJobs ==
    /\ pc = "fetch"
    /\ pc' = IF jobs_payload = <<>> THEN "done" ELSE "link"
    /\ UNCHANGED <<stage, i, results, failed_batches, calls, outcomes>>
    /\ UNCHANGED <<callVars, configVars, sinkVars, tailVars, normVars>>

\* lines 1339-1343: ensure_assistant_has_cv_vector_store returns
LinkAssistant ==
    /\ pc = "link"
    /\ pc' = "analysis"
    /\ UNCHANGED <<stage, i, results, failed_batches, calls, outcomes>>
    /\ UNCHANGED <<callVars, configVars, sinkVars, tailVars, normVars>>

\* ... or one of its requests raises, which nothing in main() catches
LinkAssistantFails ==
    /\ pc = "link"
    /\ pc' = "aborted"
    /\ stage' = "link"
    /\ UNCHANGED <<i, results, failed_batches, calls, outcomes>>
    /\ UNCHANGED <<callVars, configVars, sinkVars, tailVars, normVars>>

\* lines 1378-1405 and 1508-1514: the next batch, or the whole input, is
\* handed to run_assistant_analysis
StartCall ==
    /\ pc = "analysis"
    /\ calls' = Append(calls, [batch_num |-> CurrentNum, jobs |-> CurrentBatch])
    /\ attempt' = 0
    /\ threads' = <<>>
    /\ slept' = <<>>
    /\ polls' = 0
    /\ pc' = "attempt"
    /\ UNCHANGED in_flight
    /\ UNCHANGED <<stage, i, results, failed_batches, outcomes>>
    /\ UNCHANGED <<configVars, sinkVars, tailVars, normVars>>

\* variant of AfterBatch: a failed batch ends the run
AfterBatchAbort(ok, off, size, n) ==
    IF ~ok THEN "aborted" ELSE IF off + size < n THEN "analysis" ELSE "reconcile"
\* variant of Extend: a batch's records go in front of the earlier ones
ExtendFront(res, out) == IF out.ok THEN out.v \o res ELSE res

\* the pc after a batch of the for loop, whether the call returned or the
\* except clause of line 1424 caught its error (lines 1378, 1424-1443)
AfterBatch(ok, off, size, n) == IF off + size < n THEN "analysis" ELSE "reconcile"
\* the pc after the single call of lines 1508-1516, which no try guards
AfterSingle(ok) == IF ok THEN "reconcile" ELSE "aborted"
\* line 1407 and the except clause, which leaves results alone
Extend(res, out) == IF out.ok THEN res \o out.v ELSE res
\* variant of RecordFailure: the failure of a batch is not kept
RecordFailureNone(failed, out, num, batch) == failed
\* lines 1424-1430
RecordFailure(failed, out, num, batch) ==
    IF out.ok THEN failed
    ELSE Append(failed, [batch_num |-> num, jobs |-> batch, error |-> out.msg])

\* run_assistant_analysis returns or raises `out` to main()
Finish(out) ==
    /\ outcomes' = Append(outcomes, [batch_num |-> CurrentNum, out |-> out])
    /\ IF Batched
       THEN /\ results' = Extend(results, out)
            /\ failed_batches' = RecordFailure(failed_batches, out, CurrentNum, CurrentBatch)
            /\ i' = i + batch_size
            /\ pc' = AfterBatch(out.ok, i, batch_size, Len(jobs_payload))
            /\ stage' = IF pc' = "aborted" THEN "analysis" ELSE stage
       ELSE /\ results' = IF out.ok THEN out.v ELSE results
            /\ pc' = AfterSingle(out.ok)
            /\ stage' = IF pc' = "aborted" THEN "analysis" ELSE stage
            /\ UNCHANGED <<failed_batches, i>>
    /\ attempt' = 0
    /\ polls' = 0
    /\ UNCHANGED <<calls, configVars, sinkVars, tailVars, normVars>>

(***************************************************************************)
(* run_assistant_analysis, one action per suspension point.                *)
(***************************************************************************)
\* the latest conversation's run has reached a terminal status
EndRun(ths, end) == [ths EXCEPT ![Len(ths)].run = end]

\* variant of LoopSkipped: the call returns no records
LoopSkippedReturns ==
    /\ pc = "attempt"
    /\ attempt >= max_retries
    /\ UNCHANGED <<threads, slept, in_flight>>
    /\ Finish(Return(<<>>))

\* line 644 with max_retries <= 0: the loop body never runs, and line 717
\* reads the unbound local `thread`
LoopSkipped ==
    /\ pc = "attempt"
    /\ attempt >= max_retries
    /\ UNCHANGED <<threads, slept, in_flight>>
    /\ Finish(Raise("UnboundLocalError", <<"local variable 'thread' referenced before assignment">>))

\* lines 646-656: a new conversation with the one user message, and its run
OpenConversation ==
    /\ pc = "attempt"
    /\ attempt < max_retries
    /\ threads' = Append(threads,
                         [batch_num |-> CurrentNum, attempt |-> attempt,
                          messages |-> <<build_user_prompt(CurrentBatch)>>,
                          run |-> Ending("in_progress", NoError)])
    /\ polls' = 0
    /\ in_flight' = in_flight + 1
    /\ pc' = "poll"
    /\ UNCHANGED <<stage, i, results, failed_batches, calls, outcomes, attempt, slept>>
    /\ UNCHANGED <<configVars, sinkVars, tailVars, normVars>>

\* the request of line 646 fails: the client's error is no RuntimeError
ApiError ==
    /\ pc = "attempt"
    /\ attempt < max_retries
    /\ UNCHANGED <<threads, slept, in_flight>>
    /\ Finish(Raise("APIConnectionError", <<"Connection error.">>))

\* lines 659-662: the request for the run's status fails; the client's
\* error is no RuntimeError, and the run goes on at the service
PollError ==
    /\ pc = "poll"
    /\ UNCHANGED <<threads, slept, in_flight>>
    /\ Finish(Raise("APITimeoutError", <<"Request timed out.">>))

\* lines 658-665: the run is not over yet
PollPending ==
    /\ pc = "poll"
    /\ polls < MaxPolls
    /\ polls' = polls + 1
    /\ UNCHANGED <<pc, stage, i, results, failed_batches, calls, outcomes>>
    /\ UNCHANGED <<attempt, threads, slept, in_flight>>
    /\ UNCHANGED <<configVars, sinkVars, tailVars, normVars>>

\* lines 663-715: the run ended failed, cancelled or expired
RunEnds ==
    /\ pc = "poll"
    /\ in_flight' = in_flight - 1
    /\ \E end \in endings :
         LET o == AttemptOutcome(end.status, end.last_error, attempt, max_retries) IN
         IF o.kind = "continue"
         THEN /\ threads' = EndRun(threads, end)
              /\ slept' = Append(slept, o.sleep)
              /\ attempt' = attempt + 1
              /\ polls' = 0
              /\ pc' = "attempt"
              /\ UNCHANGED <<stage, i, results, failed_batches, calls, outcomes>>
              /\ UNCHANGED <<configVars, sinkVars, tailVars, normVars>>
         ELSE /\ threads' = EndRun(threads, end)
              /\ UNCHANGED slept
              /\ Finish(o.err)

\* variant of RunCompleted: a text that cannot be decoded or normalized is
\* asked for again while attempts remain
RunCompletedRetries ==
    /\ pc = "poll"
    /\ in_flight' = in_flight - 1
    /\ \E msgs \in Conversations(answers, CurrentBatch) :
         LET out == ReadResult(msgs) IN
         IF ~out.ok /\ out.type # "RuntimeError" /\ attempt < max_retries - 1
         THEN /\ threads' = EndRun(threads, Ending("completed", NoError))
              /\ slept' = Append(slept, BackoffBase + attempt * BackoffStep)
              /\ attempt' = attempt + 1
              /\ polls' = 0
              /\ pc' = "attempt"
              /\ UNCHANGED <<stage, i, results, failed_batches, calls, outcomes>>
              /\ UNCHANGED <<configVars, sinkVars, tailVars, normVars>>
         ELSE /\ threads' = EndRun(threads, Ending("completed", NoError))
              /\ UNCHANGED slept
              /\ Finish(out)

\* lines 663-697 and 717-758: the run completed
RunCompleted ==
    /\ pc = "poll"
    /\ in_flight' = in_flight - 1
    /\ \E msgs \in Conversations(answers, CurrentBatch) :
         /\ threads' = EndRun(threads, Ending("completed", NoError))
         /\ UNCHANGED slept
         /\ Finish(ReadResult(msgs))

(***************************************************************************)
(* main() after the analysis phase.                                        *)
(***************************************************************************)
analysisVars == <<i, failed_batches, calls, outcomes>>

\* lines 1543-1557; the analysis phase is over and with it the record of
\* its latest call
ReconcileStep ==
    /\ pc = "reconcile"
    /\ LET r == Reconcile(jobs_payload, results) IN
       IF r.ok
       THEN /\ results' = r.v
            /\ missing' = r.missing
            /\ pc' = "persist"
            /\ stage' = stage
       ELSE /\ pc' = "aborted"
            /\ stage' = "reconcile"
            /\ UNCHANGED <<results, missing>>
    /\ k' = 1
    /\ notion' \in InitialSinks
    /\ threads' = <<>>
    /\ slept' = <<>>
    /\ UNCHANGED <<creates, created, notion_success, attempt, polls, in_flight>>
    /\ UNCHANGED <<analysisVars, configVars, tailVars, normVars>>

\* lines 1564-1573, one record: create_notion_page returns, having skipped
\* a duplicate or created the page
PersistItem ==
    /\ pc = "persist"
    /\ k <= Len(results)
    /\ LET page == Page(results[k]) IN
       IF Duplicate(notion, page)
       THEN UNCHANGED <<notion, creates, created>>
       ELSE notion' = notion \cup {page} /\ creates' = creates + 1 /\ created' = created + 1
    /\ notion_success' = notion_success + 1
    /\ k' = k + 1
    /\ UNCHANGED <<pc, stage, results, missing>>
    /\ UNCHANGED <<analysisVars, callVars, configVars, tailVars, normVars>>

\* variant of PersistQueryFails: nothing catches the error of the query
PersistQueryAborts ==
    /\ pc = "persist"
    /\ k <= Len(results)
    /\ LET page == Page(results[k]) IN QueriesUrl(page) \/ QueriesTitle(page)
    /\ pc' = "aborted"
    /\ stage' = "persist"
    /\ UNCHANGED <<k, results, missing, notion, creates, created, notion_success>>
    /\ UNCHANGED <<analysisVars, callVars, configVars, tailVars, normVars>>

\* ... or a dedup query fails, which the except clause of line 1572 logs
PersistQueryFails ==
    /\ pc = "persist"
    /\ k <= Len(results)
    /\ LET page == Page(results[k]) IN QueriesUrl(page) \/ QueriesTitle(page)
    /\ k' = k + 1
    /\ UNCHANGED <<pc, stage, results, missing, notion, creates, created, notion_success>>
    /\ UNCHANGED <<analysisVars, callVars, configVars, tailVars, normVars>>

\* ... or the create request is refused, logged likewise
PersistCreateFails ==
    /\ pc = "persist"
    /\ k <= Len(results)
    /\ ~Duplicate(notion, Page(results[k]))
    /\ creates' = creates + 1
    /\ k' = k + 1
    /\ UNCHANGED <<pc, stage, results, missing, notion, created, notion_success>>
    /\ UNCHANGED <<analysisVars, callVars, configVars, tailVars, normVars>>

\* lines 1575-1593: the report text, from the assistant or, when that
\* raises, from generate_fallback_report, whose own error nothing catches
GenerateReport ==
    /\ pc = "persist"
    /\ k > Len(results)
    /\ \E ai \in BOOLEAN :
         IF ai THEN report' = "assistant" /\ pc' = "write" /\ stage' = stage
         ELSE IF FallbackWorks(results)
              THEN report' = "fallback" /\ pc' = "write" /\ stage' = stage
              ELSE report' = report /\ pc' = "aborted" /\ stage' = "report"
    /\ UNCHANGED <<results, mail>>
    /\ UNCHANGED <<analysisVars, callVars, configVars, sinkVars, normVars>>

\* lines 1598-1643: the consolidated local report is written
WriteReport ==
    /\ pc = "write"
    /\ pc' = "mail"
    /\ UNCHANGED <<stage, results, report, mail>>
    /\ UNCHANGED <<analysisVars, callVars, configVars, sinkVars, normVars>>

\* variant of MailStep: a failure of the mail step is not caught
MailStepRaises ==
    /\ pc = "mail"
    /\ \E m \in {"skipped", "sent", "token_failed", "send_failed"} :
         /\ mail' = m
         /\ IF m \in {"token_failed", "send_failed"}
            THEN pc' = "aborted" /\ stage' = "mail"
            ELSE pc' = "done" /\ stage' = stage
    /\ UNCHANGED <<results, report>>
    /\ UNCHANGED <<analysisVars, callVars, configVars, sinkVars, normVars>>

\* lines 1672-1694: no recipient (line 1678), a mail sent, or a failure of
\* get_graph_access_token (line 1091) or of the send (lines 1105-1116),
\* logged at line 1688
MailStep ==
    /\ pc = "mail"
    /\ mail' \in {"skipped", "sent", "token_failed", "send_failed"}
    /\ pc' = "done"
    /\ UNCHANGED <<stage, results, report>>
    /\ UNCHANGED <<analysisVars, callVars, configVars, sinkVars, normVars>>

Next ==
    \/ FetchJobs
    \/ LinkAssistant
    \/ LinkAssistantFails
    \/ StartCall
    \/ LoopSkipped
    \/ OpenConversation
    \/ ApiError
    \/ PollError
    \/ PollPending
    \/ RunEnds
    \/ RunCompleted
    \/ ReconcileStep
    \/ PersistItem
    \/ PersistQueryFails
    \/ PersistCreateFails
    \/ GenerateReport
    \/ WriteReport
    \/ MailStep

Spec == Init /\ [][Next]_vars
SpecCall == InitCall /\ [][Next]_vars

\* the steps that are the program's own or a request answered at once; a
\* run's terminal status (RunEnds, RunCompleted) is the service's to report,
\* and the loop of lines 658-665 has no other exit
OwnSteps ==
    \/ FetchJobs
    \/ LinkAssistant
    \/ LinkAssistantFails
    \/ StartCall
    \/ LoopSkipped
    \/ OpenConversation
    \/ ApiError
    \/ ReconcileStep
    \/ PersistItem
    \/ PersistQueryFails
    \/ PersistCreateFails
    \/ GenerateReport
    \/ WriteReport
    \/ MailStep
\* one call, the program never halting of itself
SpecCallFair == InitCall /\ [][Next]_vars /\ WF_vars(OwnSteps)

(***************************************************************************)
(* normalize_results on its own, over JSON values of bounded size.         *)
(***************************************************************************)
MaxLen == 2         \* elements of a list given to normalize_results

\* a record of an analysis reduced to the keys normalize_results looks at
Short(url, gaps) ==
    JDict(<<KV(<<"job_url">>, JStr(<<url>>)), KV(<<"gaps">>, JList(gaps))>>)
NormElems ==
    { Short("u1", <<JStr(<<"g">>)>>),
      Short("u2", <<>>),
      JNum("5"),
      JNull,
      JStr(<<"w">>),
      JStr(JsonDumps(Short("u1", <<JStr(<<"g">>)>>))),
      JStr(JsonDumps(Short("u2", <<>>))),
      JList(<<>>) }
NormLists == UNION { [1..n -> NormElems] : n \in 0..MaxLen }
\* x encoded as a JSON string, and that string encoded as a JSON string
Twice(x) == JStr(JsonDumps(JStr(JsonDumps(x))))
NormObjects == {l \in NormLists : \A n \in 1..Len(l) : IsDict(l[n])}
NormTwice ==
    { Twice(JList(l)) : l \in {m \in NormObjects : Len(m) <= 1} }
    \cup { JList([n \in 1..Len(l) |-> Twice(l[n])]) : l \in NormObjects }
\* leaf below n mappings, each holding it under key
RECURSIVE Chain(_, _, _)
Chain(n, key, leaf) ==
    IF n = 0 THEN leaf ELSE JDict(<<KV(<<key>>, Chain(n - 1, key, leaf))>>)
ListOne == JList(<<Short("u1", <<JStr(<<"g">>)>>)>>)
ListTwo == JList(<<Short("u2", <<>>)>>)
\* what a key of a mapping may hold: lists of objects, an empty list, a list
\* of numbers, and lists below further mappings, within max_depth and beyond
NormValues ==
    { ListOne, ListTwo, JList(<<>>), JList(<<JNum("5")>>), JStr(<<"w">>),
      Chain(1, "x", ListOne), Chain(1, "jobs", ListTwo),
      JDict(<<KV(<<"x">>, ListOne), KV(<<"items">>, ListTwo)>>),
      Chain(MaxDepth - 1, "x", ListTwo), Chain(MaxDepth, "x", ListTwo) }
NormKeys == {"results", "data", "jobs", "other", "job_url"}
NormNested ==
    { Chain(n, key, leaf) : n \in 1..(MaxDepth + 2), key \in {"data", "x"},
                            leaf \in {ListOne, JList(<<>>)} }
    \cup { JDict(DictPut(<<KV(<<a>>, v)>>, <<b>>, w)) :
              a \in NormKeys, b \in NormKeys, v \in NormValues, w \in NormValues }
    \cup { JDict(<<KV(<<"wrap">>, JDict(DictPut(<<KV(<<a>>, ListOne)>>, <<b>>, ListTwo)))>>) :
              a \in NormKeys, b \in NormKeys }
NormInputs ==
    NormElems
    \cup NormTwice
    \cup NormNested
    \cup { JList(l) : l \in NormLists }
    \cup { JStr(JsonDumps(JList(l))) : l \in NormLists }
    \cup { JDict(<<KV(<<key>>, JList(l))>>) : key \in {"results", "jobs", "payload"}, l \in NormLists }

InitNorm ==
    /\ jobs_payload = <<>>
    /\ batch_size = 0
    /\ max_retries = 0
    /\ endings = {}
    /\ answers = {}
    /\ InitRun
    /\ parsed \in NormInputs
    /\ normalized = Idle
    /\ msgs_data = Idle
    /\ scanned = Idle
    /\ assistant_output = Idle
    /\ extracted = Idle
    /\ racers = <<>>

\* one call of normalize_results(parsed)
NormalizeStep ==
    /\ normalized = Idle
    /\ normalized' = normalize_results(parsed)
    /\ UNCHANGED <<pc, stage, results, parsed, msgs_data, scanned, assistant_output, extracted, racers>>
    /\ UNCHANGED <<analysisVars, callVars, configVars, sinkVars, tailVars>>

NextNorm == NormalizeStep

SpecNorm == InitNorm /\ [][NextNorm]_vars

(***************************************************************************)
(* extract_json on its own, on the text of an array, on the array in a     *)
(* fenced block between two pieces of prose, on prose alone and on texts   *)
(* longer than the preview.                                                *)
(***************************************************************************)
MaxProse == 2       \* atoms of a piece of prose

ProseAtoms == {"Here", Blank, "[", "}"}
Prose == UNION { [1..n -> ProseAtoms] : n \in 0..MaxProse }
ExtractArrays ==
    { <<>>,
      <<JNum("1"), JStr(<<"]">>)>>,
      <<Short("u1", <<JStr(<<"g">>)>>)>> }
TextOfArray(A) == JsonDumps(JList(A))
Fenced(prefix, A, suffix) ==
    prefix \o <<Fence, "json", Blank>> \o TextOfArray(A) \o <<Blank, Fence>> \o suffix
LongText(n) == [m \in 1..n |-> "x"]
ExtractInputs ==
    { TextOfArray(A) : A \in ExtractArrays }
    \cup { Fenced(p, A, q) : p \in Prose, A \in ExtractArrays, q \in Prose }
    \cup Prose
    \cup { LongText(PreviewLen), LongText(PreviewLen + 1),
           <<"[">> \o LongText(PreviewLen) \o <<"]">>,
           <<"{", Quote, "a", Quote, "}", Blank, "and", Blank, "{", "}">> }

InitExtract ==
    /\ jobs_payload = <<>>
    /\ batch_size = 0
    /\ max_retries = 0
    /\ endings = {}
    /\ answers = {}
    /\ InitRun
    /\ parsed = Idle
    /\ normalized = Idle
    /\ msgs_data = Idle
    /\ scanned = Idle
    /\ assistant_output \in ExtractInputs
    /\ extracted = Idle
    /\ racers = <<>>

\* one call of extract_json(text)
ExtractStep ==
    /\ extracted = Idle
    /\ extracted' = extract_json(assistant_output)
    /\ UNCHANGED <<pc, stage, results, parsed, normalized, msgs_data, scanned, assistant_output, racers>>
    /\ UNCHANGED <<analysisVars, callVars, configVars, sinkVars, tailVars>>

NextExtract == ExtractStep

SpecExtract == InitExtract /\ [][NextExtract]_vars

(***************************************************************************)
(* The scan of a completed run's messages on its own (lines 717-749).      *)
(***************************************************************************)
MaxMsgs == 3        \* messages of a conversation

\* messages of either author: text in one block or in several around a
\* block that is no text, blank text, no text at all
ScanContents ==
    { <<TextBlock(<<"[", "]">>)>>,
      <<TextBlock(<<"[">>), OtherBlock, TextBlock(<<"1", "]">>)>>,
      <<TextBlock(<<Blank>>), TextBlock(<<"{", "}">>)>>,
      <<TextBlock(<<Blank>>), OtherBlock>>,
      <<>> }
ScanMessageSet ==
    { Message("assistant", c) : c \in ScanContents }
    \cup { Message("user", <<TextBlock(<<"analyse">>)>>),
           Message("user", <<OtherBlock, TextBlock(<<"[", "9", "]">>)>>) }
ScanInputs == UNION { [1..n -> ScanMessageSet] : n \in 0..MaxMsgs }

InitScan ==
    /\ jobs_payload = <<>>
    /\ batch_size = 0
    /\ max_retries = 0
    /\ endings = {}
    /\ answers = {}
    /\ InitRun
    /\ parsed = Idle
    /\ normalized = Idle
    /\ msgs_data \in ScanInputs
    /\ scanned = Idle
    /\ assistant_output = Idle
    /\ extracted = Idle
    /\ racers = <<>>

\* lines 720-749: the text handed to extract_json, or the RuntimeError
ScanStep ==
    /\ scanned = Idle
    /\ scanned' = (LET assistant_text == AssistantText(msgs_data) IN
                   IF assistant_text = <<>>
                   THEN Raise("RuntimeError", <<"No assistant text message found">>)
                   ELSE Return(assistant_text))
    /\ UNCHANGED <<pc, stage, results, parsed, normalized, msgs_data, assistant_output, extracted, racers>>
    /\ UNCHANGED <<analysisVars, callVars, configVars, sinkVars, tailVars>>

NextScan == ScanStep

SpecScan == InitScan /\ [][NextScan]_vars

(***************************************************************************)
(* Reconciliation on its own: main() at line 1543, after a single analysis *)
(* call whose answer was the JSON array of the records in results.         *)
(***************************************************************************)
MaxRecs == 2        \* analysis records given to the reconciliation

\* a scraped row without a URL
JobNoUrl ==
    JDict(<<KV(<<"job_url">>, None),
            KV(<<"site">>, JStr(<<"glassdoor">>)),
            KV(<<"date_posted">>, JStr(<<"2025-02-02">>))>>)
RecPayloads == { <<Job(1)>>, <<Job(1), Job(2)>>, <<JobNoUrl, Job(1)>> }

\* analysis records: the job_url of an input record, of none, empty, null or
\* absent; date_posted and site absent, carried after the other fields, or
\* date_posted carried before them
RecUrls == { <<KV(<<"job_url">>, JStr(<<Urls[1]>>))>>,
             <<KV(<<"job_url">>, JStr(<<Urls[2]>>))>>,
             <<KV(<<"job_url">>, JStr(<<Urls[6]>>))>>,
             <<KV(<<"job_url">>, JStr(<<>>))>>,
             <<KV(<<"job_url">>, None)>>,
             <<>> }
RecRecords ==
    LET score == <<KV(<<"score">>, JNum("42"))>>
        date == <<KV(<<"date_posted">>, JStr(<<"1999-09-09">>))>>
        site == <<KV(<<"site">>, JStr(<<"bogus">>))>>
    IN  UNION { { JDict(u \o score), JDict(u \o score \o date \o site), JDict(date \o u \o score) }
                : u \in RecUrls }
RecResults == UNION { [1..n -> RecRecords] : n \in 0..MaxRecs }

InitRec ==
    /\ jobs_payload \in RecPayloads
    /\ batch_size = 0
    /\ max_retries = MaxRetries
    /\ endings = {}
    /\ answers = {}
    /\ results \in RecResults
    /\ calls = <<[batch_num |-> 1, jobs |-> jobs_payload]>>
    /\ outcomes = <<[batch_num |-> 1,
                     out |-> [ok |-> TRUE, v |-> results, raw |-> JsonDumps(JList(results))]]>>
    /\ pc = "reconcile"
    /\ notion = {}
    /\ InitLocals
    /\ parsed = Idle
    /\ normalized = Idle
    /\ msgs_data = Idle
    /\ scanned = Idle
    /\ assistant_output = Idle
    /\ extracted = Idle
    /\ racers = <<>>

NextRec == ReconcileStep

SpecRec == InitRec /\ [][NextRec]_vars

(***************************************************************************)
(* Persistence on its own: the loop of lines 1562-1573 over reconciled     *)
(* records that name their title, company and location, or do not.         *)
(***************************************************************************)
SinkUrls == { <<KV(<<"job_url">>, JStr(<<Urls[1]>>))>>,
              <<KV(<<"job_url">>, JStr(<<Urls[2]>>))>>,
              <<>> }
SinkNames ==
    LET berlin == <<KV(<<"location">>, JStr(<<"Berlin">>))>> IN
    { <<>>,
      <<KV(<<"job_title">>, JStr(<<"Engineer">>)), KV(<<"company">>, JStr(<<"Acme">>))>> \o berlin,
      <<KV(<<"title">>, JStr(<<"Engineer">>)), KV(<<"company_name">>, JStr(<<"Acme">>))>> \o berlin,
      <<KV(<<"job_title">>, JStr(<<"Engineer">>)), KV(<<"company">>, JStr(<<"Bolt">>))>> \o berlin,
      <<KV(<<"job_title">>, JStr(<<"Engineer">>))>> \o berlin }
SinkRecords == { JDict(u \o names) : u \in SinkUrls, names \in SinkNames }
SinkResults ==
    UNION { [1..n -> {Merge(<<Job(1), Job(2)>>, r) : r \in SinkRecords}] : n \in 0..MaxRecs }
\* the sink before the run: empty, or holding the page of an earlier run
SinkPages ==
    { {},
      {Page(JDict(<<KV(<<"job_url">>, JStr(<<Urls[1]>>))>>))},
      {Page(JDict(<<KV(<<"job_url">>, JStr(<<Urls[3]>>)),
                    KV(<<"job_title">>, JStr(<<"Engineer">>)),
                    KV(<<"company">>, JStr(<<"Acme">>)),
                    KV(<<"location">>, JStr(<<"Berlin">>))>>))} }

InitSink ==
    /\ jobs_payload = <<Job(1), Job(2)>>
    /\ batch_size = 0
    /\ max_retries = MaxRetries
    /\ endings = {}
    /\ answers = {}
    /\ results \in SinkResults
    /\ calls = <<>>
    /\ outcomes = <<>>
    /\ pc = "persist"
    /\ notion \in SinkPages
    /\ InitLocals
    /\ parsed = Idle
    /\ normalized = Idle
    /\ msgs_data = Idle
    /\ scanned = Idle
    /\ assistant_output = Idle
    /\ extracted = Idle
    /\ racers = <<>>

NextSink ==
    \/ PersistItem
    \/ PersistQueryFails
    \/ PersistCreateFails

SpecSink == InitSink /\ [][NextSink]_vars

(***************************************************************************)
(* run_assistant_in_thread on a conversation that holds earlier messages,  *)
(* listed newest first: its attempts and the scan of lines 587-622.        *)
(***************************************************************************)
\* message_content, as the service stores it
UserMessage == Message("user", <<TextBlock(<<"analyse">>)>>)

InitThread ==
    /\ jobs_payload = <<>>
    /\ batch_size = 0
    /\ max_retries = MaxRetries
    /\ endings = {}
    /\ answers = {}
    /\ results = <<>>
    /\ calls = <<>>
    /\ outcomes = <<>>
    /\ pc = "attempt"
    /\ notion = {}
    /\ InitLocals
    /\ parsed = Idle
    /\ normalized = Idle
    /\ msgs_data \in ScanInputs
    /\ scanned = Idle
    /\ assistant_output = Idle
    /\ extracted = Idle
    /\ racers = <<>>

ThreadFrame ==
    /\ UNCHANGED <<stage, results, parsed, normalized, assistant_output, extracted, racers>>
    /\ UNCHANGED <<analysisVars, configVars, sinkVars, tailVars>>
    /\ UNCHANGED <<threads, polls, in_flight>>

\* lines 516-553: the user message is added, the run fails on the rate
\* limit and an attempt remains
ThreadRateLimited ==
    /\ pc = "attempt"
    /\ attempt < max_retries - 1
    /\ msgs_data' = <<UserMessage>> \o msgs_data
    /\ slept' = Append(slept, DefaultWait + WaitMargin)
    /\ attempt' = attempt + 1
    /\ UNCHANGED <<pc, scanned>>
    /\ ThreadFrame

\* lines 516-558 and 567-583: the user message is added and the run ends in
\* a way that makes the call raise
ThreadRunFails ==
    /\ pc = "attempt"
    /\ attempt < max_retries
    /\ msgs_data' = <<UserMessage>> \o msgs_data
    /\ scanned' = Raise("RuntimeError", <<"Run not completed">>)
    /\ pc' = "done"
    /\ UNCHANGED <<attempt, slept>>
    /\ ThreadFrame

\* lines 516-565: the user message is added and the run completes, leaving
\* the assistant's message in the conversation
ThreadRunCompletes ==
    /\ pc = "attempt"
    /\ attempt < max_retries
    /\ \E content \in ScanContents :
         msgs_data' = <<Message("assistant", content), UserMessage>> \o msgs_data
    /\ pc' = "scan"
    /\ UNCHANGED <<attempt, slept, scanned>>
    /\ ThreadFrame

\* lines 587-622: the text handed to extract_json, or the RuntimeError
ThreadScan ==
    /\ pc = "scan"
    /\ scanned' = (LET assistant_text == InThreadText(msgs_data) IN
                   IF assistant_text = <<>>
                   THEN Raise("RuntimeError", <<"No assistant text message found">>)
                   ELSE Return(assistant_text))
    /\ pc' = "done"
    /\ UNCHANGED <<attempt, slept, msgs_data>>
    /\ ThreadFrame

NextThread ==
    \/ ThreadRateLimited
    \/ ThreadRunFails
    \/ ThreadRunCompletes
    \/ ThreadScan

SpecThread == InitThread /\ [][NextThread]_vars

(***************************************************************************)
(* Several runs in create_notion_page at once, each for one record,        *)
(* against the same sink.  The sink numbers the pages it creates; the      *)
(* pages it held before are numbered 0.                                    *)
(***************************************************************************)
MaxRacers == 2      \* concurrent runs

Racers == 1..MaxRacers
Stored(page, id) ==
    [job_url |-> page.job_url, job_title |-> page.job_title,
     company |-> page.company, location |-> page.location, id |-> id]
\* variant of CreatePage: the sink keeps one page of a URL
CreatePageOnce(sink, page, id) ==
    IF QueriesUrl(page) /\ ExistsByUrl(sink, page) THEN sink ELSE sink \cup {Stored(page, id)}
\* the request of line 1291, answered with 2xx
CreatePage(sink, page, id) == sink \cup {Stored(page, id)}

RaceRecords ==
    { JDict(<<KV(<<"job_url">>, JStr(<<Urls[1]>>))>>),
      JDict(<<KV(<<"job_url">>, JStr(<<Urls[1]>>)),
              KV(<<"job_title">>, JStr(<<"Engineer">>)),
              KV(<<"company">>, JStr(<<"Acme">>))>>),
      JDict(<<KV(<<"job_url">>, JStr(<<Urls[2]>>)),
              KV(<<"job_title">>, JStr(<<"Engineer">>)),
              KV(<<"company">>, JStr(<<"Acme">>))>>),
      JDict(<<KV(<<"job_title">>, JStr(<<"Engineer">>)),
              KV(<<"company">>, JStr(<<"Acme">>))>>) }
RaceSinks ==
    { {},
      {Stored(Page(JDict(<<KV(<<"job_url">>, JStr(<<Urls[1]>>))>>)), 0)},
      {Stored(Page(JDict(<<KV(<<"job_url">>, JStr(<<Urls[3]>>)),
                           KV(<<"job_title">>, JStr(<<"Engineer">>)),
                           KV(<<"company">>, JStr(<<"Acme">>))>>)), 0)} }

InitRace ==
    /\ jobs_payload = <<Job(1), Job(2)>>
    /\ batch_size = 0
    /\ max_retries = MaxRetries
    /\ endings = {}
    /\ answers = {}
    /\ results = <<>>
    /\ calls = <<>>
    /\ outcomes = <<>>
    /\ pc = "persist"
    /\ notion \in RaceSinks
    /\ InitLocals
    /\ parsed = Idle
    /\ normalized = Idle
    /\ msgs_data = Idle
    /\ scanned = Idle
    /\ assistant_output = Idle
    /\ extracted = Idle
    /\ racers \in [Racers -> {[at |-> "url", item |-> r] : r \in RaceRecords}]

RaceFrame ==
    /\ UNCHANGED <<pc, stage, results, parsed, normalized, msgs_data, scanned, assistant_output, extracted>>
    /\ UNCHANGED <<analysisVars, callVars, configVars, tailVars>>
    /\ UNCHANGED <<missing, k, notion_success>>
Move(r, to) == racers' = [racers EXCEPT ![r].at = to]

\* line 1230: the query by job_url, if there is a job_url, is answered
RaceCheckUrl(r) ==
    /\ racers[r].at = "url"
    /\ LET page == Page(racers[r].item) IN
       Move(r, IF QueriesUrl(page) /\ ExistsByUrl(notion, page) THEN "skipped" ELSE "title")
    /\ UNCHANGED <<notion, creates, created>>
    /\ RaceFrame

\* line 1235: the query by title, company and location, if title and
\* company are there, is answered
RaceCheckTitle(r) ==
    /\ racers[r].at = "title"
    /\ LET page == Page(racers[r].item) IN
       Move(r, IF QueriesTitle(page) /\ ExistsByTitle(notion, page) THEN "skipped" ELSE "create")
    /\ UNCHANGED <<notion, creates, created>>
    /\ RaceFrame

\* lines 1291-1297: the create request is answered with 2xx
RaceCreate(r) ==
    /\ racers[r].at = "create"
    /\ notion' = CreatePage(notion, Page(racers[r].item), r)
    /\ creates' = creates + 1
    /\ created' = created + 1
    /\ Move(r, "created")
    /\ RaceFrame

\* one of the requests fails and create_notion_page raises
RaceFails(r) ==
    /\ racers[r].at \in {"url", "title", "create"}
    /\ \/ racers[r].at = "create"
       \/ racers[r].at = "url" /\ QueriesUrl(Page(racers[r].item))
       \/ racers[r].at = "title" /\ QueriesTitle(Page(racers[r].item))
    /\ Move(r, "failed")
    /\ creates' = IF racers[r].at = "create" THEN creates + 1 ELSE creates
    /\ UNCHANGED <<notion, created>>
    /\ RaceFrame

NextRace ==
    \E r \in Racers :
        \/ RaceCheckUrl(r)
        \/ RaceCheckTitle(r)
        \/ RaceCreate(r)
        \/ RaceFails(r)

SpecRace == InitRace /\ [][NextRace]_vars

(***************************************************************************)
(* Properties of the concurrent runs (SpecRace).                           *)
(***************************************************************************)
\* the pages of the sink with the job_url of the racer's record
PagesFor(r) == {q \in notion : q.job_url = Page(racers[r].item).job_url}
\* two runs for the same job_url, of which the sink held no record
SameNewUrl(a, b) ==
    /\ a # b
    /\ QueriesUrl(Page(racers[a].item))
    /\ Page(racers[a].item).job_url = Page(racers[b].item).job_url
    /\ \A q \in PagesFor(a) : q.id # 0

\* C25: when the existence checks of two concurrent runs for the same
\* job_url have both passed against a sink that held no record for it, each
\* run creates its own record whatever the other has done: once both have
\* created, the sink holds two records for the URL.
C25_BothChecksPassBothCreate ==
    \A a \in Racers, b \in Racers :
        (SameNewUrl(a, b) /\ racers[a].at = "created" /\ racers[b].at = "created") =>
            /\ Cardinality(PagesFor(a)) >= 2
            /\ \E q \in PagesFor(a) : q.id = a
            /\ \E q \in PagesFor(a) : q.id = b

\* the interleaving: both checks passed before either create, and the sink
\* has ended with two records for the URL
C25_Witness ==
    /\ racers # <<>>
    /\ SameNewUrl(1, 2)
    /\ racers[1].at = "created"
    /\ racers[2].at = "created"
    /\ Cardinality(PagesFor(1)) = 2
    /\ creates = 2

(***************************************************************************)
(* Properties of extract_json (SpecExtract).                               *)
(***************************************************************************)
\* C19: for every JSON array A and every prose prefix and suffix,
\* extract_json of prefix + fenced block with A + suffix returns what
\* extract_json of the text of A alone returns.
C19_FencedArrayAsArrayAlone ==
    extracted # Idle =>
        \A A \in ExtractArrays :
            (\E p \in Prose, q \in Prose : assistant_output = Fenced(p, A, q)) =>
                extracted = extract_json(TextOfArray(A))

\* the text has no bracket with its closing bracket after it, nor a brace
NoRegion(ts) ==
    ~\E m \in 1..Len(ts), n \in 1..Len(ts) :
        /\ m < n
        /\ \/ ts[m] = "[" /\ ts[n] = "]"
           \/ ts[m] = "{" /\ ts[n] = "}"
\* the cases in which extract_json is to raise
MustRaise(ts) == ts = <<>> \/ NoRegion(ts) \/ ~JsonLoads(BracketMatch(ts)).ok
\* msg has the characters ts in it, one after the other
Carries(msg, ts) ==
    \E a \in 1..(Len(msg) - Len(ts) + 1) : SubSeq(msg, a, a + Len(ts) - 1) = ts
\* the stretches of n characters of the text
Stretches(ts, n) == {SubSeq(ts, a, a + n - 1) : a \in 1..(Len(ts) - n + 1)}
AtMostPreview(msg, ts) == \A w \in Stretches(ts, PreviewLen + 1) : ~Carries(msg, w)

\* C20 as stated: extract_json raises on an empty input, on an input with
\* no bracketed region and on a region that is no valid JSON, and the error
\* carries at most 300 characters of the input and never all of it.
C20_RaisesWithoutTheFullText ==
    (extracted # Idle /\ MustRaise(assistant_output)) =>
        /\ ~extracted.ok
        /\ AtMostPreview(extracted.msg, assistant_output)
        /\ assistant_output # <<>> => ~Carries(extracted.msg, assistant_output)

\* C20: ... and the message of the error carries at most 300 characters
\* of the input, which are all of it only when the input has no bracketed
\* region and at most 300 characters.
C20_RaisesWithAtMostThePreview ==
    (extracted # Idle /\ MustRaise(assistant_output)) =>
        /\ ~extracted.ok
        /\ AtMostPreview(extracted.msg, assistant_output)
        /\ (assistant_output # <<>> /\ Carries(extracted.msg, assistant_output)) =>
              NoRegion(assistant_output) /\ Len(assistant_output) <= PreviewLen

\* a text of 301 characters with no bracket: the error has its first 300
C20_Witness ==
    /\ assistant_output = LongText(PreviewLen + 1)
    /\ extracted # Idle
    /\ ~extracted.ok
    /\ Carries(extracted.msg, LongText(PreviewLen))
    /\ ~Carries(extracted.msg, assistant_output)

(***************************************************************************)
(* Properties of the scan of the messages (SpecScan).                      *)
(***************************************************************************)
\* the values of the text blocks, one after the other
RECURSIVE TextOf(_)
TextOf(blocks) ==
    IF blocks = <<>> THEN <<>>
    ELSE (IF Head(blocks).type = "text" THEN Head(blocks).value ELSE <<>>) \o TextOf(Tail(blocks))
NonBlank(ts) == \E n \in 1..Len(ts) : ts[n] # Blank
\* positions, newest first, of the assistant's messages with non-blank text
WithText(ms) ==
    {n \in 1..Len(ms) : ms[n].role = "assistant" /\ NonBlank(TextOf(ms[n].content))}

\* C18: with the messages listed newest first, the text that is decoded is
\* the concatenation, in block order, of all text blocks of the most recent
\* assistant message with non-blank text; messages of the user and blocks
\* that are no text add nothing to it.
C18_DecodesLatestAssistantText ==
    (scanned # Idle /\ WithText(msgs_data) # {}) =>
        /\ scanned.ok
        /\ scanned.v = TextOf(msgs_data[Min(WithText(msgs_data))].content)

\* a user message with bracketed text is the newest, then an assistant
\* message with text around an image, then an older assistant message
C18_Witness ==
    /\ scanned # Idle
    /\ Len(msgs_data) = 3
    /\ msgs_data[1].role = "user" /\ Len(msgs_data[1].content) = 2
    /\ msgs_data[2] = Message("assistant", <<TextBlock(<<"[">>), OtherBlock, TextBlock(<<"1", "]">>)>>)
    /\ msgs_data[3] = Message("assistant", <<TextBlock(<<"[", "]">>)>>)
    /\ scanned.ok
    /\ scanned.v = <<"[", "1", "]">>

\* ts begins with ps
IsPrefix(ps, ts) == Len(ps) <= Len(ts) /\ \A n \in 1..Len(ps) : ps[n] = ts[n]

\* C30: when the run that run_assistant_in_thread has just completed left an
\* assistant message with non-blank text, the newest message of the
\* conversation, the text that is decoded is text of that message, whatever
\* the assistant said in the earlier exchanges of the conversation.
C30_InThreadDecodesNewestMessage ==
    (/\ pc = "done"
     /\ msgs_data # <<>>
     /\ 1 \in WithText(msgs_data)) =>
        /\ scanned.ok
        /\ NonBlank(scanned.v)
        /\ IsPrefix(scanned.v, TextOf(msgs_data[1].content))

(***************************************************************************)
(* Properties of the persistence (SpecSink).                               *)
(***************************************************************************)
\* one call of create_notion_page, for the record at k
CreateCall == pc = "persist" /\ k <= Len(results) /\ k' = k + 1
Text(x) == IF IsStr(x) THEN x.s ELSE <<>>
\* the sink holds a record with the same non-empty job_url, or with the
\* same title, company and location, title and company non-empty
SinkHolds(page) ==
    \E q \in notion :
        \/ q.job_url = page.job_url /\ Text(page.job_url) # <<>>
        \/ /\ q.job_title = page.job_title
           /\ q.company = page.company
           /\ q.location = page.location
           /\ Text(page.job_title) # <<>>
           /\ Text(page.company) # <<>>

PersistenceOver == pc = "persist" /\ k > Len(results)

\* C28: once every record has been attempted, notion_success, which becomes
\* stats["notion_written"], is the number of pages the sink created in this
\* run: skipped duplicates and failed writes are not in it.
C28_WrittenCountsPagesCreated ==
    PersistenceOver => notion_success = created

(***************************************************************************)
(* Properties of the reconciliation (SpecRec).                             *)
(***************************************************************************)
\* the records as the analysis returned them, in single-call mode
Analysed == outcomes[1].out.v
Reconciled == pc \in {"persist", "write", "mail", "done"}
Merged == {<<"date_posted">>, <<"site">>}
\* the fields of a record other than date_posted and site, in their order
OtherFields(r) == SelectSeq(r.kv, LAMBDA f : f.k \notin Merged)
\* the input records whose non-empty job_url the record has
Matches(r) ==
    {m \in 1..Len(jobs_payload) :
        /\ HasKey(r, <<"job_url">>)
        /\ HasKey(jobs_payload[m], <<"job_url">>)
        /\ DictGet(jobs_payload[m], <<"job_url">>) = DictGet(r, <<"job_url">>)
        /\ DictGet(r, <<"job_url">>) \notin {JNull, JStr(<<>>)}}

\* C12: reconciliation gives every analysis record whose job_url is the
\* non-empty job_url of an input record that input record's date_posted and
\* site, whatever the record carried; it changes no other field, and adds,
\* removes or reorders no record.
C12_MatchedRecordsTakeInputValues ==
    Reconciled =>
        /\ Len(results) = Len(Analysed)
        /\ \A n \in 1..Len(results) :
             /\ OtherFields(results[n]) = OtherFields(Analysed[n])
             /\ \A m \in Matches(Analysed[n]) :
                  /\ HasKey(results[n], <<"date_posted">>)
                  /\ DictGet(results[n], <<"date_posted">>)
                         = DictGet(jobs_payload[m], <<"date_posted">>)
                  /\ HasKey(results[n], <<"site">>)
                  /\ DictGet(results[n], <<"site">>) = DictGet(jobs_payload[m], <<"site">>)

\* a record that carried its own date and site for the URL of the first job
C12_Witness ==
    /\ Reconciled
    /\ jobs_payload = <<Job(1), Job(2)>>
    /\ Len(results) = 2
    /\ Matches(Analysed[2]) = {1}
    /\ HasKey(Analysed[2], <<"site">>)
    /\ DictGet(Analysed[2], <<"site">>) = JStr(<<"bogus">>)
    /\ DictGet(results[2], <<"site">>) = JStr(<<"indeed">>)
    /\ DictGet(results[2], <<"date_posted">>) = JStr(<<"2025-01-01">>)

\* C13: reconciliation leaves date_posted and site of an analysis record
\* exactly as they were when the record's job_url is absent, empty or the
\* job_url of no input record.
C13_UnmatchedRecordsKeepValues ==
    Reconciled =>
        \A n \in 1..Len(results) :
            Matches(Analysed[n]) = {} =>
                \A f \in Merged :
                    /\ HasKey(results[n], f) <=> HasKey(Analysed[n], f)
                    /\ HasKey(Analysed[n], f) => DictGet(results[n], f) = DictGet(Analysed[n], f)

(***************************************************************************)
(* Properties of the orchestration (Spec).                                 *)
(***************************************************************************)
InCall == pc \in {"attempt", "poll"}

\* every conversation of the latest call holds the one user message of its
\* batch and is the only one of its attempt
OneMessageEach ==
    \A n \in 1..Len(threads) :
        /\ threads[n].messages = <<build_user_prompt(calls[Len(calls)].jobs)>>
        /\ threads[n].batch_num = calls[Len(calls)].batch_num
        /\ \A m \in 1..Len(threads) : threads[m].attempt = threads[n].attempt => m = n
\* a conversation is opened only when every earlier call has returned or
\* raised
BatchesInTurn ==
    [][Len(threads') = Len(threads) + 1 => Len(outcomes) = Len(calls) - 1]_vars

\* C24: at every point at most one remote run is in flight; the exchange of
\* a batch is over before the first conversation of the next batch is
\* opened; every conversation holds exactly one user message and belongs to
\* one attempt of one batch.
C24_OneRunInFlight ==
    /\ [](in_flight <= 1)
    /\ []OneMessageEach
    /\ BatchesInTurn

\* C23: every call of run_assistant_analysis eventually returns or raises,
\* having opened at most max_retries conversations.
C23_EveryCallEnds ==
    /\ [](Len(threads) <= (IF max_retries > 0 THEN max_retries ELSE 0))
    /\ InCall ~> ~InCall

\* the current run completes in this step
Completes == pc = "poll" /\ threads'[Len(threads')].run.status = "completed"
\* an error of extract_json or of normalize_results
DecodeFailure(out) == ~out.ok /\ out.type \in {"ValueError", "JSONDecodeError"}

C21_EmptyScrapeMakesNoRemoteCall ==
    jobs_payload = <<>> =>
        /\ pc \in {"fetch", "done"}
        /\ calls = <<>>
        /\ threads = <<>>
        /\ creates = 0
        /\ notion = {}
        /\ mail = "none"
        /\ report = "none"

\* the run over an empty scrape has ended
C21_Witness ==
    /\ jobs_payload = <<>>
    /\ pc = "done"
    /\ mail = "none"

\* C16: a failure of the mail step, of the token acquisition or of the send,
\* never fails the run: the step that records it ends the run as done; and
\* the mail step is entered only from the completed write of the
\* consolidated report, so that no mail attempt precedes it.
C16_MailFailureIsHarmlessAndAfterReport ==
    [][/\ (pc' = "mail" /\ pc # "mail") => pc = "write"
       /\ mail' # mail => pc = "mail" /\ pc' = "done"
       /\ pc' = "aborted" => stage' # "mail"]_vars

\* the token could not be acquired and the run is done, report written
C16_Witness ==
    /\ pc = "done"
    /\ mail = "token_failed"
    /\ report # "none"
    /\ Len(results) >= 1

\* C15: during persistence create_notion_page is attempted once for every
\* reconciled record, in order: the loop starts at the first record, every
\* step of it is the attempt for the record at k and moves to the next one
\* whether the attempt failed or not, and the run goes on to the report only
\* after the last record, never aborting in between.
C15_EveryRecordAttemptedInOrder ==
    [][/\ (pc # "persist" /\ pc' = "persist") => k' = 1
       /\ pc = "persist" =>
            IF k <= Len(results)
            THEN k' = k + 1 /\ pc' = "persist" /\ results' = results
            ELSE pc' = "write" \/ (pc' = "aborted" /\ stage' = "report")]_vars

\* the create request of the first of three records was refused, the
\* second was created and a query for the third failed; the run ended
C15_Witness ==
    /\ pc = "done"
    /\ Len(results) = 3
    /\ k = 4
    /\ creates = 2
    /\ notion_success = 1
    /\ Page(results[1]) \notin notion
    /\ Page(results[2]) \in notion
    /\ Page(results[3]) \notin notion

N == Len(jobs_payload)
\* 0 < B < N
InBatchedMode == batch_size >= 1 /\ batch_size < N
\* the least number of batches of batch_size records that hold N records
Ceil == CHOOSE t \in 0..N : t * batch_size >= N /\ (t - 1) * batch_size < N
\* the records of the n-th batch, counted from the positions of the input
Slice(n) ==
    LET from == (n - 1) * batch_size
        to == IF n * batch_size < N THEN n * batch_size ELSE N
    IN  [m \in 1..(to - from) |-> jobs_payload[from + m]]
\* main() has left the analysis phase
AnalysisOver ==
    \/ pc \in {"reconcile", "persist", "write", "mail", "done"}
    \/ pc = "aborted" /\ stage # "link"
\* the latest call of run_assistant_analysis has returned or raised
CallOver == calls # <<>> /\ Len(outcomes) = Len(calls)
LastOutcome == outcomes[Len(outcomes)].out

C2_SingleFailureRecorded ==
    (~InBatchedMode /\ Len(outcomes) = 1 /\ ~outcomes[1].out.ok) =>
        /\ ~(pc = "aborted" /\ stage = "analysis")
        /\ Len(failed_batches) = 1
        /\ results = <<>>

\* the records of the first n calls that returned, in the order of the calls
RECURSIVE Returned(_)
Returned(n) ==
    IF n = 0 THEN <<>>
    ELSE Returned(n - 1) \o (IF outcomes[n].out.ok THEN outcomes[n].out.v ELSE <<>>)
FailuresOf(n) == {f \in 1..Len(failed_batches) : failed_batches[f].batch_num = n}

Successes == {n \in 1..Len(outcomes) : outcomes[n].out.ok}

C29_NoAttemptNoConversation ==
    max_retries <= 0 =>
        /\ threads = <<>>
        /\ in_flight = 0
        /\ \A n \in 1..Len(outcomes) : ~outcomes[n].out.ok
        /\ (InBatchedMode /\ AnalysisOver) =>
              /\ Len(failed_batches) = Ceil
              /\ \A n \in 1..Ceil : failed_batches[n].batch_num = n
              /\ results = <<>>

\* a batched run with max_retries -1: its batches, more than one, have all
\* failed on the unbound local of line 717
C29_Witness ==
    /\ max_retries = -1
    /\ InBatchedMode
    /\ pc = "reconcile"
    /\ Ceil >= 2
    /\ Len(outcomes) = Ceil
    /\ \A n \in 1..Ceil : outcomes[n].out.type = "UnboundLocalError"
    /\ Len(failed_batches) = Ceil
    /\ results = <<>>

\* the records of the first n calls
RECURSIVE Handed(_)
Handed(n) == IF n = 0 THEN <<>> ELSE Handed(n - 1) \o calls[n].jobs

\* C7: with B <= 0 or B >= N the N records go to one analysis call; with
\* 0 < B < N they go to ceil(N/B) calls, consecutive slices of the input in
\* input order, each of at most B records and only the last one shorter,
\* their sizes adding up to N and every record in exactly one of them.
C7_Partition ==
    N >= 1 =>
        IF InBatchedMode
        THEN /\ Len(calls) <= Ceil
             /\ \A n \in 1..Len(calls) :
                  /\ Len(calls[n].jobs) >= 1
                  /\ Len(calls[n].jobs) <= batch_size
                  /\ n < Ceil => Len(calls[n].jobs) = batch_size
             /\ Handed(Len(calls)) = SubSeq(jobs_payload, 1, Len(Handed(Len(calls))))
             /\ AnalysisOver => Len(calls) = Ceil /\ Handed(Len(calls)) = jobs_payload
        ELSE /\ Len(calls) <= 1
             /\ \A n \in 1..Len(calls) : calls[n].jobs = jobs_payload
             /\ AnalysisOver => Len(calls) = 1

\* three records in batches of two: a full slice, then a shorter last one
C7_Witness ==
    /\ N = 3
    /\ batch_size = 2
    /\ pc = "reconcile"
    /\ Len(calls) = 2
    /\ Len(calls[1].jobs) = 2
    /\ Len(calls[2].jobs) = 1

\* C8: once at least one record is scraped the run reaches the writing of
\* the consolidated report, whatever fails in the analysis calls, in the
\* batches, in the shape of the analysis records, in the sink or in the
\* generation of the report.
C8_ReportAlwaysReached ==
    N >= 1 => ~(pc = "aborted" /\ stage \in {"analysis", "reconcile", "report"})

ListFields == {"match_reasons", "gaps", "keywords"}
\* the text is one JSON object with the job's URL and the schema's list fields
SingleObjectFor(raw, job) ==
    LET r == JsonLoads(raw) IN
    /\ r.ok
    /\ IsDict(r.v)
    /\ HasKey(r.v, <<"job_url">>)
    /\ DictGet(r.v, <<"job_url">>) = DictGet(job, <<"job_url">>)
    /\ \A f \in ListFields : HasKey(r.v, <<f>>) /\ IsList(DictGet(r.v, <<f>>))

\* C9: N >= 2 records with distinct URLs, batch_size 1, every answer a
\* single JSON object for its record with the schema's fields, whose lists
\* may be empty: every answer normalizes to one record, the results hold N
\* records, no URL is missing and the sink gets at most N create requests.
C9_OneRecordPerAnswer ==
    (/\ N >= 2
     /\ batch_size = 1
     /\ \A n \in 1..Len(outcomes) :
          /\ outcomes[n].out.ok
          /\ SingleObjectFor(outcomes[n].out.raw, calls[n].jobs[1]))
    => /\ \A n \in 1..Len(outcomes) : Len(outcomes[n].out.v) = 1
       /\ AnalysisOver => Len(results) = N
       /\ pc \in {"persist", "write", "mail", "done"} => missing = <<>>
       /\ creates <= N

(***************************************************************************)
(* Properties of one analysis call (SpecCall).                             *)
(***************************************************************************)
\* C4: a run that completes without any assistant text is retried: the call
\* waits and repeats the attempt in a new conversation, and gives up only
\* after max_retries attempts.
C4_NoTextIsRetried ==
    (/\ CallOver
     /\ ~LastOutcome.ok
     /\ LastOutcome.msg = <<"No assistant text message found">>)
    => Len(threads) = max_retries

RateLimited(run) ==
    /\ run.status = "failed"
    /\ run.last_error.present
    /\ run.last_error.code = "rate_limit_exceeded"
\* the delay a rate-limit message suggests, or 15
Suggested(message) == IF message = <<"wait", "try again in ", "7", "s">> THEN 7 ELSE 15

Permanent(run) ==
    \/ run.status \in {"cancelled", "expired"}
    \/ /\ run.status = "failed"
       /\ run.last_error.present
       /\ run.last_error.code # "rate_limit_exceeded"
\* the error code or the error message holds, in some letter case,
\* "rate_limit" or "no assistant text message found"
MentionsRetryText(run) ==
    /\ run.last_error.present
    /\ \E a \in {run.last_error.code} \cup {run.last_error.message[n] :
                                              n \in 1..Len(run.last_error.message)} :
         a \in {"rate_limit", "Rate_Limit", "rate_limit_exceeded", "RATE_LIMIT_EXCEEDED",
                "No assistant text message found", "no assistant text message found"}
\* the attempt of the n-th conversation raised to the caller
RaisedAt(n) ==
    /\ n = Len(threads)
    /\ Len(slept) = n - 1
    /\ CallOver
    /\ ~LastOutcome.ok

\* C6 as stated: a run that ends cancelled, expired, or failed with another
\* code makes the call raise on that attempt, with no sleep and no new
\* conversation, whatever the text of the error code or message.
C6_PermanentFailureRaisesAtOnce ==
    \A n \in 1..Len(threads) : Permanent(threads[n].run) => RaisedAt(n)

\* C6: such a run makes the call raise on that attempt, with no sleep and no
\* new conversation, unless its error code or message holds "rate_limit" or
\* "no assistant text message found" in some letter case and an attempt
\* remains: then the call sleeps 5 + attempt*2 and goes on to the next attempt.
C6_PermanentFailureRaisesUnlessRateLimitText ==
    \A n \in 1..Len(threads) :
        Permanent(threads[n].run) =>
            IF MentionsRetryText(threads[n].run) /\ n < max_retries
            THEN Len(slept) >= n /\ slept[n] = 5 + (n - 1) * 2
            ELSE RaisedAt(n)

\* a server error whose message names the rate limit is retried after 5 s;
\* the cancelled run of the second attempt ends the call
C6_Witness ==
    /\ CallOver
    /\ max_retries = 3
    /\ Len(threads) = 2
    /\ threads[1].run = Ending("failed", LastError("server_error", <<"upstream", "Rate_Limit">>))
    /\ threads[2].run.status = "cancelled"
    /\ slept = <<5>>
    /\ ~LastOutcome.ok

(***************************************************************************)
(* Properties of normalize_results (SpecNorm).                             *)
(***************************************************************************)
\* the arrays of objects among the inputs
ObjectArrays == {l \in NormLists : \A n \in 1..Len(l) : IsDict(l[n])}
\* the four encodings of the array of objects A
Encodings(A) ==
    { JList(A), JStr(JsonDumps(JList(A))), JList([n \in 1..Len(A) |-> JStr(JsonDumps(A[n]))]) }
    \cup { JDict(<<KV(<<key>>, JList(A))>>) : key \in {"results", "jobs"} }

\* C11: for an array of objects A, normalize_results returns A, the same
\* elements in the same order, for A itself, for an object holding A under
\* a recognized key, for the array of the JSON strings of A's elements and
\* for the JSON string of A.
C11_FourEncodingsOneResult ==
    \A A \in ObjectArrays :
        (parsed \in Encodings(A) /\ normalized # Idle) =>
            normalized.ok /\ normalized.v = A

\* two objects given as an array of two JSON strings come back as the objects
C11_Witness ==
    LET A == <<Short("u1", <<JStr(<<"g">>)>>), Short("u2", <<>>)>> IN
    /\ parsed = JList([n \in 1..2 |-> JStr(JsonDumps(A[n]))])
    /\ normalized # Idle
    /\ normalized.ok
    /\ normalized.v = A

\* the lists find_list_of_dict may return that sit in v, itself d levels
\* below the top-level mapping, at most 6 levels below it, under mappings only
RECURSIVE ListsBelow(_, _)
ListsBelow(v, d) ==
    IF d > 6 THEN {}
    ELSE IF IsList(v)
         THEN IF \A n \in 1..Len(v.items) : IsDict(v.items[n]) THEN {v.items} ELSE {}
    ELSE IF IsDict(v) THEN UNION { ListsBelow(v.kv[n].v, d + 1) : n \in 1..Len(v.kv) }
    ELSE {}
\* the mappings in v with their levels, v itself included
RECURSIVE MappingsIn(_, _)
MappingsIn(v, d) ==
    IF IsDict(v)
    THEN {<<v, d>>} \cup UNION { MappingsIn(v.kv[n].v, d + 1) : n \in 1..Len(v.kv) }
    ELSE {}
NamedKeys == <<"results", "data", "items", "output", "content", "analysis", "jobs">>
\* the lists reachable from the mapping m of level d through its key k
Through(m, d, key) == IF HasKey(m, <<key>>) THEN ListsBelow(DictGet(m, <<key>>), d + 1) ELSE {}
\* got, the list chosen at the mapping m of level d, is reached through the
\* first of the named keys that reaches a list, if one does
Prefers(m, d, got) ==
    \A n \in 1..Len(NamedKeys) :
        (/\ Through(m, d, NamedKeys[n]) # {}
         /\ \A j \in 1..(n - 1) : Through(m, d, NamedKeys[j]) = {})
            => got \in Through(m, d, NamedKeys[n])

\* C27: for a mapping, normalize_results returns a list found at most 6
\* levels below it whenever there is one, never a list found deeper only,
\* and at every mapping it visits the list chosen is one reached through the
\* first of the keys results, data, items, output, content, analysis, jobs
\* that reaches a list, before any list reached through other keys only.
C27_ListWithinSixLevelsPreferredKeysFirst ==
    (IsDict(parsed) /\ normalized # Idle) =>
        /\ ListsBelow(parsed, 0) # {} =>
              /\ normalized.ok
              /\ normalized.v \in ListsBelow(parsed, 0)
              /\ Prefers(parsed, 0, normalized.v)
        /\ ListsBelow(parsed, 0) = {} =>
              (normalized.ok => HasKey(parsed, <<"job_url">>) /\ normalized.v = <<parsed>>)
        /\ \A md \in MappingsIn(parsed, 0) :
              LET got == find_list_of_dict(md[1], md[2], MaxDepth) IN
              got.found => Prefers(md[1], md[2], got.v)

\* a list 6 levels down under "data" is returned, the list right under
\* "other", which comes first in the mapping, is not
C27_Witness ==
    /\ parsed = JDict(<<KV(<<"other">>, ListOne),
                        KV(<<"data">>, Chain(5, "x", ListTwo))>>)
    /\ normalized # Idle
    /\ normalized.ok
    /\ normalized.v = ListTwo.items

\* the two doubly-encoded forms of the array of objects A
TwiceEncodings(A) ==
    { Twice(JList(A)), JList([n \in 1..Len(A) |-> Twice(A[n])]) }

\* C26: for an array of objects A, normalize_results returns A for the JSON
\* string of the JSON string of A, and for the array of the doubly-encoded
\* JSON strings of A's elements.
C26_DoublyEncodedNormalizes ==
    \A A \in ObjectArrays :
        (parsed \in TwiceEncodings(A) /\ normalized # Idle) =>
            normalized.ok /\ normalized.v = A

\* C10: normalize_results either raises or returns a sequence whose every
\* element is a mapping.
C10_ReturnsOnlyMappings ==
    (normalized # Idle /\ normalized.ok) =>
        \A n \in 1..Len(normalized.v) : IsDict(normalized.v[n])
====
